---- MODULE Spec2Model ----
(***************************************************************************)
(* Session runtime of claude-agent-sdk-go: the subprocess transport with   *)
(* its background read loop (SubprocessCLITransport), the line framer      *)
(* (JSONLineReader / JSONLineWriter), the message decoder                  *)
(* (types.UnmarshalMessage) and the session facade (Client).               *)
(*                                                                         *)
(* The child's stdout is a script of lines; a line is named by the kind of *)
(* record it carries.  A message is identified by the position of its line *)
(* in the script, so order, loss and duplication are observable.           *)
(***************************************************************************)
EXTENDS Integers, Sequences, FiniteSets, TLC

\* ---------------------------------------------------------------- bounds
MaxLines == 2      \* longest mixed script of the child
LiveLines == 1     \* longest script of the fair specification
FloodLen == 12     \* length of a flood script (more than the queue holds)
MaxQueries == 1    \* user turns written to the child's stdin
MaxCalls == 2      \* ReceiveResponse calls of one session
MaxWrites == 2     \* no Write is called once this many have returned nil
MaxRecords == 2    \* records in the byte stream given to a JSONLineReader
CtlLines == 2      \* longest script of a session with control traffic
MaxBlocks == 3     \* content blocks in the content array of a record
StderrCap == 3     \* chunks the stderr pipe holds before a write to it blocks
MaxNew == 3        \* NewClient calls made with one options value

\* ------------------------------------------------------ program constants
MessagesCap == 10  \* make(chan types.Message, 10) in NewSubprocessCLITransport
OutputCap == 10    \* make(chan types.Message, 10) in Client.ReceiveResponse
DefaultMaxBufferSize == 1048576  \* 1024 * 1024
InitialBufSize == 65536          \* make([]byte, 0, 64*1024) in NewJSONLineReaderWithSize

\* ------------------------------------------------------------ line kinds
ContentTypes == {"user", "assistant", "system", "result", "stream_event"}
ControlTypes == {"control_request", "control_response"}
\* lines that are not a decodable record: broken JSON, a JSON object whose
\* type is absent, a type outside the known set, a known type with a body
\* of the wrong shape
BadKinds == {"malformed", "notype", "unknown", "badbody"}
\* lines on which the framer itself fails
FramingKinds == {"oversized"}
\* the kinds the scripts of a session are drawn from
LineKinds == {"assistant", "result", "control_response", "oversized"}
\* the kinds of the odd line of a flood script
FloodKinds == {"assistant", "result", "control_response", "malformed", "empty", "oversized"}
\* the kinds the scripts of the fair specification are drawn from
LiveKinds == {"assistant", "result", "malformed"}
\* the scripts of the sessions in which the API calls are examined
CallScripts == {<<>>, <<"assistant">>, <<"result">>}
Prompts == {"", "hi"}

NoErr == [src |-> "nil", line |-> 0]

\* what an API call returned: the call and its result
Ret(op, res) == [op |-> op, res |-> res]
\* no call has just returned
NoRet == Ret("none", "none")

VARIABLES
    script,          \* lines the child writes to stdout, in order
    t,               \* the transport and its child: cmd (t.cmd != nil), ready,
                     \* err, ctxDone (t.ctx cancelled), waited (cmd.Wait has
                     \* returned), closing (a Close holds t.mu and waits),
                     \* proc ("none", "running", "exited" on its own,
                     \* "killed"), stdin (the lines the child has received)
    messages,        \* t.messages: buffered channel of decoded messages
    messagesClosed,  \* close(t.messages) has run
    rpc,             \* read loop: "idle", "read", "send", "done"
    rpos,            \* next line of the script the read loop will read
    rheld,           \* message the read loop is trying to send (0: none)
    rexit,           \* why the read loop returned: "none", "eof", "framing", "cancel"
    c_connected,     \* c.connected
    c_query,         \* c.query != nil
    cpc,             \* Client.Connect: "idle" or "handshake" (holds c.mu)
    q_state,         \* correlator: "idle", "reading", "stopped"
    rr_pc,           \* ReceiveResponse goroutine: "none","start","recv","fwd","done"
    rr_ctxDone,      \* the context of the current ReceiveResponse call is cancelled
    rr_held,         \* message taken from the queue, not yet forwarded (0: none)
    outputChan,      \* outputChan of the current ReceiveResponse call
    outputClosed,    \* close(outputChan) has run
    ncalls,          \* ReceiveResponse calls that have reached the session queue
    taken,           \* history: every message removed from t.messages
    callOut,         \* history: messages the current call sent on outputChan
    allOut,          \* history: messages sent on the ReceiveResponse channels
    ret,             \* the API call that has just returned and its result
                     \* (NoRet once another step has been taken)
    wpc,             \* where each caller of Write is: "idle", "lock", "data", "nl", "flush"
    wmu,             \* the caller of Write that holds t.mu ("none": free)
    wbuf,            \* the bytes in the bufio.Writer of t.writer
    wire,            \* the bytes the child has received on stdin
    wlog,            \* history: the callers whose Write returned nil, in order
    fstream,         \* a byte stream given to a JSONLineReader: the lengths of
                     \* its records, each followed by a newline
    freader,         \* that JSONLineReader: maxSize, buf (len of the scanner's
                     \* buffer), pos (next record of the stream), failed
    flines,          \* history: what each ReadLine call on it returned
    pending,         \* Pending Request Table: the identifiers of the outbound
                     \* control requests that wait for their response
    slot,            \* per outbound request: "unsent", "waiting", "cancelled",
                     \* "write_failed", or the response line that resolved it
    drec,            \* a record given to the decoder, by its JSON: json (kind
                     \* of text), type (the type field), content (the content
                     \* field), fields (the other fields of the shape), extra
                     \* (fields no shape knows)
    dpc,             \* which decoder functions have been applied to drec:
                     \* "new", "typed", "parsed", "done"
    dout,            \* what they returned: type (extractType), msg
                     \* (ParseMessage), blocks (ParseContentBlocks)
    ipc,             \* where each caller of GetError / IsReady is: "idle",
                     \* "lock" (at t.mu.Lock())
    stderrPipe,      \* chunks the child has written to its stderr that
                     \* nothing has read yet
    options,         \* a ClaudeAgentOptions value as it is now: canUseTool
                     \* (CanUseTool != nil), promptTool
                     \* (PermissionPromptToolName: "nil" or the name), cliPath
    options0,        \* that value as the caller made it
    created          \* history: what each NewClient call on it returned

rvars == <<messages, messagesClosed, rpc, rpos, rheld, rexit>>
cvars == <<c_connected, c_query, cpc, q_state>>
rrvars == <<rr_pc, rr_ctxDone, rr_held, outputChan, outputClosed, ncalls, taken, callOut, allOut>>
wvars == <<wpc, wmu, wbuf, wire, wlog>>
fvars == <<fstream, freader, flines>>
qvars == <<pending, slot>>
dvars == <<drec, dpc, dout>>
ivars == <<ipc>>
evars == <<stderrPipe>>
ovars == <<options, options0, created>>
hvars == <<ivars, evars, ovars>>
pvars == <<fvars, qvars, dvars, hvars>>
vars == <<script, t, rvars, cvars, rrvars, ret, wvars, pvars>>

\* ----------------------------------------------------------- the decoder
\* a decoder that has shapes for the two control types as well
UnmarshalMessage_WithControl(kind) ==
    IF kind = "malformed"
    THEN [ok |-> FALSE, err |-> "json_decode"]
    ELSE IF kind \in ContentTypes \cup ControlTypes
    THEN [ok |-> TRUE, err |-> "none"]
    ELSE IF kind = "badbody"
    THEN [ok |-> FALSE, err |-> "json_decode"]
    ELSE [ok |-> FALSE, err |-> "message_parse"]

\* types.UnmarshalMessage: peek the type, then decode the matching shape.
UnmarshalMessage(kind) ==
    IF kind = "malformed"
    THEN [ok |-> FALSE, err |-> "json_decode"]
    ELSE IF kind \in ContentTypes
    THEN [ok |-> TRUE, err |-> "none"]
    ELSE IF kind = "badbody"
    THEN [ok |-> FALSE, err |-> "json_decode"]
    ELSE [ok |-> FALSE, err |-> "message_parse"]

\* JSONLineReader.ReadLine on the script: the next line, the framing error
\* of an oversized line, or io.EOF after the last line (the scanner sees
\* the end of the stream once the child has gone; until then it blocks).
ReadLine(s, pos) ==
    IF pos > Len(s)
    THEN [res |-> "eof"]
    ELSE IF s[pos] \in FramingKinds
    THEN [res |-> "toolong"]
    ELSE [res |-> "line"]

\* SubprocessCLITransport.OnError: the slot keeps the first error.
OnError(old, e) == IF old = NoErr THEN e ELSE old

\* SubprocessCLITransport.GetError
GetError(w) == w.err

IsResult(m) == script[m] = "result"

\* ------------------------------------------------------------- read loop
\* a loop that returns on a decode failure
ReaderNext_FatalDecode(outcome) ==
    CASE outcome = "eof" -> "done"
      [] outcome = "framing" -> "done"
      [] outcome = "empty" -> "read"
      [] outcome = "decode_error" -> "done"
      [] outcome = "message" -> "send"

\* a loop that keeps reading at end of stream
ReaderNext_PastEOF(outcome) ==
    CASE outcome = "eof" -> "read"
      [] outcome = "framing" -> "done"
      [] outcome = "empty" -> "read"
      [] outcome = "decode_error" -> "read"
      [] outcome = "message" -> "send"

\* where the loop goes after one ReadLine: it returns at end of stream and
\* on a framing failure, skips an empty line, records a decode failure and
\* continues, and moves to the blocking send with a decoded message
ReaderNext(outcome) ==
    CASE outcome = "eof" -> "done"
      [] outcome = "framing" -> "done"
      [] outcome = "empty" -> "read"
      [] outcome = "decode_error" -> "read"
      [] outcome = "message" -> "send"

\* an iteration that hands an empty line to the decoder
ReadOutcome_NoEmptyCheck(s, pos) ==
    IF ReadLine(s, pos).res = "eof" THEN "eof"
    ELSE IF ReadLine(s, pos).res = "toolong" THEN "framing"
    ELSE IF ~UnmarshalMessage(s[pos]).ok THEN "decode_error"
    ELSE "message"

\* what one iteration finds at position pos of the script
ReadOutcome(s, pos) ==
    IF ReadLine(s, pos).res = "eof" THEN "eof"
    ELSE IF ReadLine(s, pos).res = "toolong" THEN "framing"
    ELSE IF s[pos] = "empty" THEN "empty"
    ELSE IF ~UnmarshalMessage(s[pos]).ok THEN "decode_error"
    ELSE "message"

\* the error the iteration hands to OnError
ReadError(s, pos) ==
    IF ReadOutcome(s, pos) = "framing"
    THEN [src |-> "framing", line |-> pos]
    ELSE [src |-> UnmarshalMessage(s[pos]).err, line |-> pos]

\* top of the loop: the non-blocking check of ctx.Done() finds the context
\* cancelled.  When it does not, the loop goes on to ReadLine, which can
\* still be waiting when the context is cancelled later.
ReaderCheck ==
    /\ rpc = "read"
    /\ t.ctxDone
    /\ rpc' = "done"
    /\ messagesClosed' = TRUE
    /\ rexit' = "cancel"
    /\ UNCHANGED <<script, pvars, wvars, t, messages, rpos, rheld, cvars, rrvars>>
    /\ ret' = NoRet

\* the read fails on a pipe that cmd.Wait has closed under the reader
ReaderPipeClosed ==
    /\ rpc = "read"
    /\ t.waited
    /\ t' = [t EXCEPT !.err = OnError(t.err, [src |-> "framing", line |-> 0])]
    /\ rpc' = "done"
    /\ messagesClosed' = TRUE
    /\ rexit' = "framing"
    /\ UNCHANGED <<script, pvars, wvars, messages, rpos, rheld, cvars, rrvars>>
    /\ ret' = NoRet

\* ReadLine and the handling of what it returned, up to the blocking send
ReaderReadLine ==
    /\ rpc = "read"
    /\ ReadLine(script, rpos).res = "eof" => t.proc # "running"
    /\ LET o == ReadOutcome(script, rpos) IN
       /\ rpc' = ReaderNext(o)
       /\ messagesClosed' = (ReaderNext(o) = "done")
       /\ rexit' = IF ReaderNext(o) = "done" THEN o ELSE "none"
       /\ rpos' = IF o = "eof" THEN rpos ELSE rpos + 1
       /\ rheld' = IF o = "message" THEN rpos ELSE 0
       /\ t' = IF o \in {"framing", "decode_error"}
               THEN [t EXCEPT !.err = OnError(t.err, ReadError(script, rpos))]
               ELSE t
    /\ UNCHANGED <<script, pvars, wvars, messages, cvars, rrvars>>
    /\ ret' = NoRet

\* a send that gives up the message when the channel is full
ReaderSend_DropWhenFull ==
    /\ rpc = "send"
    /\ \/ /\ messages' = IF Len(messages) < MessagesCap
                          THEN Append(messages, rheld)
                          ELSE messages
          /\ rheld' = 0
          /\ rpc' = "read"
          /\ UNCHANGED <<messagesClosed, rexit>>
       \/ /\ t.ctxDone
          /\ rheld' = 0
          /\ rpc' = "done"
          /\ messagesClosed' = TRUE
          /\ rexit' = "cancel"
          /\ UNCHANGED messages
    /\ UNCHANGED <<script, pvars, wvars, t, rpos, cvars, rrvars>>
    /\ ret' = NoRet

\* select { case <-ctx.Done(): return; case t.messages <- msg: }
ReaderSend ==
    /\ rpc = "send"
    /\ \/ /\ Len(messages) < MessagesCap
          /\ messages' = Append(messages, rheld)
          /\ rheld' = 0
          /\ rpc' = "read"
          /\ UNCHANGED <<messagesClosed, rexit>>
       \/ /\ t.ctxDone
          /\ rheld' = 0
          /\ rpc' = "done"
          /\ messagesClosed' = TRUE
          /\ rexit' = "cancel"
          /\ UNCHANGED messages
    /\ UNCHANGED <<script, pvars, wvars, t, rpos, cvars, rrvars>>
    /\ ret' = NoRet

\* ------------------------------------------------------------- transport
\* a Connect that starts a child on every call
TConnect_Respawn(w, started) ==
    IF ~started THEN [w EXCEPT !.cmd = TRUE]
    ELSE [w EXCEPT !.cmd = TRUE, !.ready = TRUE, !.proc = "running", !.stdin = <<>>]

\* SubprocessCLITransport.Connect; started says whether the pipes could be
\* opened and the process started.  t.cmd is assigned before either.
TConnect(w, started) ==
    IF w.cmd THEN w
    ELSE IF ~started THEN [w EXCEPT !.cmd = TRUE]
    ELSE [w EXCEPT !.cmd = TRUE, !.ready = TRUE, !.proc = "running"]

TConnectErr(w, started) == ~w.cmd /\ ~started

\* JSONLineWriter.WriteLine: the payload and one newline, flushed; the write
\* fails when the child no longer reads its stdin
WriteLine(w, data) ==
    IF w.proc = "running"
    THEN [ok |-> TRUE, stdin |-> Append(w.stdin, data)]
    ELSE [ok |-> FALSE, stdin |-> w.stdin]

\* a Write that does not look at the ready flag
TWrite_NoReadyCheck(w, data) ==
    IF ~WriteLine(w, data).ok
    THEN [t |-> [w EXCEPT !.ready = FALSE, !.err = [src |-> "write", line |-> 0]],
          res |-> "err_write"]
    ELSE [t |-> [w EXCEPT !.stdin = WriteLine(w, data).stdin], res |-> "nil"]

\* SubprocessCLITransport.Write; the context argument is not consulted
TWrite(w, data) ==
    IF ~w.ready THEN [t |-> w, res |-> "err_not_ready"]
    ELSE IF ~WriteLine(w, data).ok
    THEN [t |-> [w EXCEPT !.ready = FALSE, !.err = [src |-> "write", line |-> 0]],
          res |-> "err_write"]
    ELSE [t |-> [w EXCEPT !.stdin = WriteLine(w, data).stdin], res |-> "nil"]

\* the ways the wait of Close ends: the child exits on its own with status
\* 0 or with another status, the kill that exec.CommandContext issues when
\* t.ctx is cancelled ends it, or the deadline of Close passes first
CloseOutcomes == {"exit0", "exitN", "ctx_killed", "killed"}

\* a child that has already ended cannot be ended by the cancellation
CanEnd(w, how) == how = "ctx_killed" => w.proc = "running"

\* a Close that forgets the command, so that Connect starts over
TClose_ForgetCmd(w, how) ==
    IF ~w.cmd THEN w
    ELSE [w EXCEPT !.cmd = FALSE, !.ready = FALSE, !.ctxDone = TRUE, !.waited = TRUE,
                   !.proc = IF w.proc = "running" THEN "exited" ELSE w.proc]

\* a Close that only marks the transport not ready
TClose_MarkOnly(w, how) ==
    IF ~w.cmd THEN w
    ELSE [w EXCEPT !.ready = FALSE]

\* SubprocessCLITransport.Close from call to return: not ready, t.ctx
\* cancelled, stdin closed, the child waited on; a child still running ends
\* the way how says
TClose(w, how) ==
    IF ~w.cmd THEN w
    ELSE [w EXCEPT !.ready = FALSE, !.ctxDone = TRUE, !.waited = TRUE,
                   !.proc = IF w.proc # "running" THEN w.proc
                            ELSE IF how \in {"ctx_killed", "killed"} THEN "killed"
                            ELSE "exited"]

\* what Close returns: the select takes ctx.Done() when the deadline has
\* passed, else the result of cmd.Wait, which is an error when the process
\* never started, was already waited on, was killed or exited non-zero
TCloseRes(w, how) ==
    IF ~w.cmd THEN "nil"
    ELSE IF how = "killed" THEN "process_killed"
    ELSE IF w.proc = "none" \/ w.waited THEN "process_error"
    ELSE IF how = "exit0" THEN "nil"
    ELSE "process_error"

\* a first part of Close that leaves t.ctx alone
TCloseBegin_NoCancel(w) ==
    [w EXCEPT !.ready = FALSE, !.closing = TRUE]

\* the first part of Close, up to the select: not ready, t.ctx cancelled,
\* stdin closed, cmd.Wait started in a goroutine
TCloseBegin(w) ==
    [w EXCEPT !.ready = FALSE, !.ctxDone = TRUE, !.closing = TRUE]

\* whether cmd.Wait has returned for a Close in progress: at once with an
\* error when the process never started or was already waited on, else
\* when the child has ended the way how says
WaitDone(w, how) ==
    \/ (w.proc = "none" \/ w.waited) /\ how = "exitN"
    \/ ~w.waited /\ w.proc = "exited" /\ how \in {"exit0", "exitN"}
    \/ ~w.waited /\ w.proc = "killed" /\ how = "ctx_killed"

\* a read loop launched by every Connect that finds the transport ready
Launched_EveryConnect(w, w2) == w2.ready

\* the read loop is launched by the Connect that starts the process
Launched(w, w2) == ~w.cmd /\ w2.ready

\* the child exits on its own, having written its script
ChildExit ==
    /\ t.proc = "running"
    /\ t' = [t EXCEPT !.proc = "exited"]
    /\ UNCHANGED <<script, pvars, wvars, rvars, cvars, rrvars>>
    /\ ret' = NoRet

\* a mutex that never makes a caller wait
MuFree_Always(holder) == TRUE

\* t.mu.Lock() returns when no other caller holds t.mu
MuFree(holder) == holder = "none"

\* the transport used directly, as the one-shot query and the tests use it
TransportConnect(started) ==
    /\ ~t.closing
    /\ MuFree(wmu)
    /\ t' = TConnect(t, started)
    /\ rpc' = IF Launched(t, t') THEN "read" ELSE rpc
    /\ ret' = Ret("Transport.Connect", IF TConnectErr(t, started) THEN "err_connection" ELSE "nil")
    /\ UNCHANGED <<script, pvars, wvars, messages, messagesClosed, rpos, rheld, rexit, cvars, rrvars>>

TransportWrite(data, ctxDone) ==
    /\ ~t.closing
    /\ Len(t.stdin) < MaxQueries
    /\ t' = TWrite(t, data).t
    /\ ret' = Ret("Transport.Write", TWrite(t, data).res)
    /\ UNCHANGED <<script, pvars, wvars, rvars, cvars, rrvars>>

\* Close up to the select; it returns at once when t.cmd is nil
TransportCloseBegin ==
    /\ ~t.closing
    /\ MuFree(wmu)
    /\ IF ~t.cmd
       THEN /\ t' = t
            /\ ret' = Ret("Transport.Close", "nil")
       ELSE /\ t' = TCloseBegin(t)
            /\ ret' = NoRet
    /\ UNCHANGED <<script, pvars, wvars, rvars, cvars, rrvars>>

\* exec.CommandContext kills the child once t.ctx is cancelled
ChildKilled ==
    /\ t.proc = "running"
    /\ t.ctxDone
    /\ t' = [t EXCEPT !.proc = "killed"]
    /\ UNCHANGED <<script, pvars, wvars, rvars, cvars, rrvars>>
    /\ ret' = NoRet

\* the select of Close and its return: the ctx.Done() branch kills the
\* process and waits for cmd.Wait, the other branch takes its result
TransportCloseEnd(how) ==
    /\ t.closing
    /\ how = "killed" \/ WaitDone(t, how)
    /\ t' = [t EXCEPT !.closing = FALSE, !.waited = TRUE,
                      !.proc = IF t.proc = "running" THEN "killed" ELSE t.proc]
    /\ ret' = Ret("Transport.Close", TCloseRes(t, how))
    /\ UNCHANGED <<script, pvars, wvars, rvars, cvars, rrvars>>

\* the goroutines Connect launches once the process has started
ConnectLaunches == {"messageReaderLoop"}

\* the child writes a chunk to its stderr; the write blocks while the pipe
\* is full
ChildWriteStderr ==
    /\ t.proc = "running"
    /\ stderrPipe < StderrCap
    /\ stderrPipe' = stderrPipe + 1
    /\ ret' = NoRet
    /\ UNCHANGED <<script, t, rvars, cvars, rrvars, wvars, fvars, qvars, dvars, ivars, ovars>>

\* readStderr: one ReadLine on the stderr pipe, the line discarded.  It is
\* a step of the program only if something has launched it.
ReadStderr ==
    /\ "readStderr" \in ConnectLaunches
    /\ ~t.ctxDone
    /\ stderrPipe > 0
    /\ stderrPipe' = stderrPipe - 1
    /\ ret' = NoRet
    /\ UNCHANGED <<script, t, rvars, cvars, rrvars, wvars, fvars, qvars, dvars, ivars, ovars>>

\* the caller receives one message from the channel ReadMessages returned
TakeMessage ==
    /\ messages # <<>>
    /\ messages' = Tail(messages)
    /\ taken' = Append(taken, Head(messages))
    /\ ret' = NoRet
    /\ UNCHANGED <<script, pvars, wvars, t, messagesClosed, rpc, rpos, rheld, rexit, cvars,
                   rr_pc, rr_ctxDone, rr_held, outputChan, outputClosed, ncalls,
                   callOut, allOut>>

\* ---------------------------------------------------- Write, step by step
\* the goroutines that call Write: Client.Query with a user turn, the
\* correlator with a control request or response
Writers == {"user", "control"}

\* the bytes of the line each of them writes
Payload(w) == IF w = "user" THEN <<"u1", "u2">> ELSE <<"c1", "c2">>

\* a terminator of two bytes
LineEnd_CRLF == <<"\r", "\n">>

\* what WriteLine writes after the payload
LineEnd == <<"\n">>

\* bufio.Writer.WriteString on a buffer with room: the bytes are appended
WriteString(buf, data) == buf \o data

\* a goroutine calls Write and arrives at t.mu.Lock()
WCall(w) ==
    /\ wpc[w] = "idle"
    /\ Len(wlog) < MaxWrites
    /\ wpc' = [wpc EXCEPT ![w] = "lock"]
    /\ ret' = NoRet
    /\ UNCHANGED <<script, pvars, t, rvars, cvars, rrvars, wmu, wbuf, wire, wlog>>

\* Write up to WriteLine: take t.mu, return an error if not ready
WBegin(w) ==
    /\ wpc[w] = "lock"
    /\ MuFree(wmu)
    /\ ~t.closing
    /\ IF ~t.ready
       THEN /\ ret' = Ret("Transport.Write", "err_not_ready")
            /\ wpc' = [wpc EXCEPT ![w] = "idle"]
            /\ UNCHANGED wmu
       ELSE /\ wpc' = [wpc EXCEPT ![w] = "data"]
            /\ wmu' = w
            /\ ret' = NoRet
    /\ UNCHANGED <<script, pvars, t, rvars, cvars, rrvars, wbuf, wire, wlog>>

\* WriteLine: w.writer.WriteString(data)
WData(w) ==
    /\ wpc[w] = "data"
    /\ wbuf' = WriteString(wbuf, Payload(w))
    /\ wpc' = [wpc EXCEPT ![w] = "nl"]
    /\ ret' = NoRet
    /\ UNCHANGED <<script, pvars, t, rvars, cvars, rrvars, wmu, wire, wlog>>

\* WriteLine: w.writer.WriteString("\n")
WNewline(w) ==
    /\ wpc[w] = "nl"
    /\ wbuf' = WriteString(wbuf, LineEnd)
    /\ wpc' = [wpc EXCEPT ![w] = "flush"]
    /\ ret' = NoRet
    /\ UNCHANGED <<script, pvars, t, rvars, cvars, rrvars, wmu, wire, wlog>>

\* WriteLine: w.writer.Flush(), and the return of Write: the buffer goes to
\* the child, or the write fails because the child is gone and Write marks
\* the transport not ready and records the error
WFlush(w) ==
    /\ wpc[w] = "flush"
    /\ IF t.proc = "running"
       THEN /\ wire' = wire \o wbuf
            /\ wbuf' = <<>>
            /\ wlog' = Append(wlog, w)
            /\ ret' = Ret("Transport.Write", "nil")
            /\ UNCHANGED t
       ELSE /\ t' = [t EXCEPT !.ready = FALSE, !.err = [src |-> "write", line |-> 0]]
            /\ ret' = Ret("Transport.Write", "err_write")
            /\ UNCHANGED <<wire, wbuf, wlog>>
    /\ wpc' = [wpc EXCEPT ![w] = "idle"]
    /\ wmu' = "none"
    /\ UNCHANGED <<script, pvars, rvars, cvars, rrvars>>

\* ------------------------------------------- GetError and IsReady, called
\* the calls that inspect the transport from another goroutine
Inspectors == {"GetError", "IsReady"}

\* SubprocessCLITransport.IsReady
IsReady(w) == w.ready

\* what the call returns once it holds t.mu
Inspect(op, w) ==
    IF op = "GetError" THEN GetError(w).src
    ELSE IF IsReady(w) THEN "true" ELSE "false"

\* a goroutine calls GetError or IsReady and arrives at t.mu.Lock()
InspectCall(op) ==
    /\ ipc[op] = "idle"
    /\ ipc' = [ipc EXCEPT ![op] = "lock"]
    /\ ret' = NoRet
    /\ UNCHANGED <<script, t, rvars, cvars, rrvars, wvars, fvars, qvars, dvars, evars, ovars>>

\* the call takes t.mu, which no Write and no Close holds, reads the field
\* and returns
InspectReturn(op) ==
    /\ ipc[op] = "lock"
    /\ MuFree(wmu)
    /\ ~t.closing
    /\ ipc' = [ipc EXCEPT ![op] = "idle"]
    /\ ret' = Ret(op, Inspect(op, t))
    /\ UNCHANGED <<script, t, rvars, cvars, rrvars, wvars, fvars, qvars, dvars, evars, ovars>>

\* ------------------------------------------------- the framer, in bytes
\* the maximum sizes a JSONLineReader is configured with: the one of the
\* overflow test, one below and one at the initial buffer, one between it
\* and the default, and the default
MaxSizes == {1024, 65535, InitialBufSize, 200000, DefaultMaxBufferSize}

\* the record lengths tried against the maximum m: around 0, around m and
\* around the initial buffer
RecordSizes(m) ==
    {0, 1, m - 1, m, m + 1, 2 * m + 16,
     InitialBufSize - 1, InitialBufSize, InitialBufSize + 1}

Min(a, b) == IF a <= b THEN a ELSE b

\* NewJSONLineReaderWithSize: scanner.Buffer(buf, maxSize) makes the
\* scanner's buffer buf[0:cap(buf)] and its maximum token size maxSize
NewJSONLineReaderWithSize(maxSize) ==
    [maxSize |-> maxSize, buf |-> InitialBufSize, pos |-> 1, failed |-> FALSE]

NewJSONLineReader == NewJSONLineReaderWithSize(DefaultMaxBufferSize)

\* bufio.Scanner.Scan while the buffer (len bytes) does not yet hold a whole
\* token of need bytes: a full buffer is doubled, to no more than max, and
\* a full buffer that is already max long or longer is ErrTooLong (0 here)
RECURSIVE ScanBuffer(_, _, _)
ScanBuffer(len, max, need) ==
    IF need <= len THEN len
    ELSE IF len >= max THEN 0
    ELSE ScanBuffer(Min(2 * len, max), max, need)

\* JSONLineReader.ReadLine on a reader r over the stream s: the next record
\* without its newline, the framing error, or io.EOF.  The token is whole
\* once the buffer holds the record and its newline.
JSONLineReaderReadLine(r, s) ==
    IF r.pos > Len(s)
    THEN [r |-> r, res |-> "eof", len |-> 0]
    ELSE LET b == ScanBuffer(r.buf, r.maxSize, s[r.pos] + 1) IN
         IF b = 0
         THEN [r |-> [r EXCEPT !.failed = TRUE], res |-> "toolong", len |-> 0]
         ELSE [r |-> [r EXCEPT !.buf = b, !.pos = r.pos + 1],
               res |-> "line", len |-> s[r.pos]]

\* one ReadLine call on the reader; as in the read loop, no call follows a
\* failure or the end of the stream
FramerReadLine ==
    /\ ~freader.failed
    /\ Len(flines) < Len(fstream) + 1
    /\ LET o == JSONLineReaderReadLine(freader, fstream) IN
       /\ freader' = o.r
       /\ flines' = Append(flines, [res |-> o.res, len |-> o.len])
    /\ UNCHANGED <<script, t, rvars, cvars, rrvars, ret, wvars, fstream, qvars, dvars, hvars>>

\* ----------------------------------------------- the decoder, by fields
\* the message types UnmarshalMessage has a shape for are ContentTypes;
\* the block types UnmarshalContentBlock has a shape for
BlockTypes == {"text", "thinking", "tool_use", "tool_result"}

\* the elements of a content array: two known blocks, a block of a type
\* outside the known set, an element that is not a JSON object with a
\* string for its type, and (in a slice of raw messages) zero bytes
BlockKinds == {"text", "tool_use", "bogus", "malformed", "empty"}

\* the values of a record's type field: absent, JSON null, a JSON number,
\* or a string
TypeValues ==
    {"absent", "null", "number"} \cup ContentTypes \cup ControlTypes \cup {"bogus"}

NoBlocks == [shape |-> "absent", blocks |-> <<>>]

\* json.Unmarshal(data, &typeCheck) with Type string: broken JSON, JSON
\* that is not an object and a type that is neither a string nor null are
\* errors; an absent or null type leaves Type empty
TypeCheck(d) ==
    IF d.json # "object" \/ d.type = "number"
    THEN [ok |-> FALSE, type |-> ""]
    ELSE IF d.type \in {"absent", "null"}
    THEN [ok |-> TRUE, type |-> ""]
    ELSE [ok |-> TRUE, type |-> d.type]

\* a result of the message decoder
Decoded(shape) == [ok |-> TRUE, shape |-> shape, err |-> "none", msg |-> "none", type |-> ""]

JSONDecodeError(msg) ==
    [ok |-> FALSE, shape |-> "none", err |-> "json_decode", msg |-> msg, type |-> ""]

MessageParseError(msg, type) ==
    [ok |-> FALSE, shape |-> "none", err |-> "message_parse", msg |-> msg, type |-> type]

\* types.UnmarshalContentBlock on an element of a content array
UnmarshalContentBlock(b) ==
    IF b \in {"malformed", "empty"}
    THEN JSONDecodeError("failed to determine content block type")
    ELSE IF b \in BlockTypes THEN Decoded(b)
    ELSE MessageParseError("unknown content block type", b)

\* every block of the array decodes
BlocksDecode(blocks) ==
    \A i \in 1..Len(blocks) : UnmarshalContentBlock(blocks[i]).ok

\* UserMessage.UnmarshalJSON: the other fields into the struct, then the
\* content as a string (null passes as one, an absent content does not),
\* else as an array of content blocks
UserMessageUnmarshalJSON(d) ==
    /\ d.fields # "badshape"
    /\ \/ d.content.shape \in {"string", "null"}
       \/ d.content.shape = "array" /\ BlocksDecode(d.content.blocks)

\* AssistantMessage.UnmarshalJSON: the content into []json.RawMessage
\* (absent and null leave it empty, a string is an error), then each block
AssistantMessageUnmarshalJSON(d) ==
    /\ d.fields # "badshape"
    /\ \/ d.content.shape \in {"absent", "null"}
       \/ d.content.shape = "array" /\ BlocksDecode(d.content.blocks)

\* json.Unmarshal into SystemMessage, ResultMessage or StreamEvent: a field
\* of the struct with a value of another JSON type is an error, absent
\* fields and fields the struct does not have are not
StructUnmarshal(d) == d.fields # "badshape"

\* types.UnmarshalMessage on the fields of the record
UnmarshalRecord(d) ==
    IF ~TypeCheck(d).ok THEN JSONDecodeError("failed to determine message type")
    ELSE LET ty == TypeCheck(d).type IN
         IF ty = "user"
         THEN IF UserMessageUnmarshalJSON(d) THEN Decoded(ty)
              ELSE JSONDecodeError("failed to unmarshal user message")
         ELSE IF ty = "assistant"
         THEN IF AssistantMessageUnmarshalJSON(d) THEN Decoded(ty)
              ELSE JSONDecodeError("failed to unmarshal assistant message")
         ELSE IF ty \in {"system", "result", "stream_event"}
         THEN IF StructUnmarshal(d) THEN Decoded(ty)
              ELSE JSONDecodeError("failed to unmarshal message")
         ELSE MessageParseError("unknown message type", ty)

\* internal.ParseMessage: empty data is refused, the errors of
\* UnmarshalMessage are returned as they are
ParseMessage(d) ==
    IF d.json = "empty" THEN MessageParseError("cannot parse empty message data", "")
    ELSE UnmarshalRecord(d)

\* internal.extractType: the record into a map, then the type entry
extractType(d) ==
    IF d.json # "object"
    THEN [ok |-> FALSE, type |-> "", err |-> "failed to unmarshal JSON for type extraction"]
    ELSE IF d.type = "absent"
    THEN [ok |-> FALSE, type |-> "", err |-> "missing type field"]
    ELSE IF d.type \in {"null", "number"}
    THEN [ok |-> FALSE, type |-> "", err |-> "type field is not a string"]
    ELSE [ok |-> TRUE, type |-> d.type, err |-> "none"]

\* internal.ParseContentBlock
ParseContentBlock(b) ==
    IF b = "empty" THEN MessageParseError("cannot parse empty content block data", "")
    ELSE UnmarshalContentBlock(b)

\* the loop of ParseContentBlocks from the zero-based index i on
RECURSIVE ParseBlocksFrom(_, _, _)
ParseBlocksFrom(blocks, i, result) ==
    IF i = Len(blocks) THEN [ok |-> TRUE, blocks |-> result, index |-> -1]
    ELSE LET b == ParseContentBlock(blocks[i + 1]) IN
         IF ~b.ok THEN [ok |-> FALSE, blocks |-> <<>>, index |-> i]
         ELSE ParseBlocksFrom(blocks, i + 1, Append(result, b.shape))

\* a loop that numbers the elements from one in its error
ParseContentBlocks_OneBased(blocks) ==
    LET r == ParseBlocksFrom(blocks, 0, <<>>) IN
    IF r.ok THEN r ELSE [r EXCEPT !.index = r.index + 1]

\* internal.ParseContentBlocks
ParseContentBlocks(blocks) ==
    IF Len(blocks) = 0 THEN [ok |-> TRUE, blocks |-> <<>>, index |-> -1]
    ELSE ParseBlocksFrom(blocks, 0, <<>>)

NoType == [ok |-> FALSE, type |-> "", err |-> "not called"]
NoMsg == [ok |-> FALSE, shape |-> "none", err |-> "not called", msg |-> "none", type |-> ""]
NoParsedBlocks == [ok |-> FALSE, blocks |-> <<>>, index |-> -2]

\* the decoder functions applied to the record, one after the other
DoExtractType ==
    /\ dpc = "new"
    /\ dpc' = "typed"
    /\ dout' = [dout EXCEPT !.type = extractType(drec)]
    /\ UNCHANGED <<script, t, rvars, cvars, rrvars, ret, wvars, fvars, qvars, drec, hvars>>

DoParseMessage ==
    /\ dpc = "typed"
    /\ dpc' = "parsed"
    /\ dout' = [dout EXCEPT !.msg = ParseMessage(drec)]
    /\ UNCHANGED <<script, t, rvars, cvars, rrvars, ret, wvars, fvars, qvars, drec, hvars>>

DoParseContentBlocks ==
    /\ dpc = "parsed"
    /\ drec.content.shape = "array"
    /\ dpc' = "done"
    /\ dout' = [dout EXCEPT !.blocks = ParseContentBlocks(drec.content.blocks)]
    /\ UNCHANGED <<script, t, rvars, cvars, rrvars, ret, wvars, fvars, qvars, drec, hvars>>

\* ------------------------------------------------------------ correlator
\* internal.Query as the facade uses it: Start begins routing, Stop ends it,
\* GetMessages hands out the content queue the read loop fills
QStart == "reading"

QStop == "stopped"

GetMessages == messages

\* the identifiers of the outbound control requests of a session
RequestIds == {"r1", "r2"}

\* the control response of the child that carries a request's identifier
ResponseLine == [r1 |-> "control_response:r1", r2 |-> "control_response:r2"]

\* the control request written for an outbound request
RequestLine == [r1 |-> "control_request:r1", r2 |-> "control_request:r2"]

\* the control requests of the child: q1 has a registered handler, q2 has
\* none; and the control response written back for each
ChildRequests == {"control_request:q1", "control_request:q2"}

Answer(k) ==
    IF k = "control_request:q1" THEN "control_response:q1" ELSE "control_error:q2"

\* the lines of a session with control traffic
CtlKinds == {"assistant"} \cup {ResponseLine[id] : id \in RequestIds} \cup ChildRequests

\* send_control_request up to its wait: a pending slot is inserted and the
\* framed request written; a failed write removes the slot again
SendControlRequest(id) ==
    /\ slot[id] = "unsent"
    /\ LET w == TWrite(t, RequestLine[id]) IN
       /\ t' = w.t
       /\ IF w.res = "nil"
          THEN /\ pending' = pending \cup {id}
               /\ slot' = [slot EXCEPT ![id] = "waiting"]
          ELSE /\ pending' = pending
               /\ slot' = [slot EXCEPT ![id] = "write_failed"]
    /\ ret' = NoRet
    /\ UNCHANGED <<script, fvars, dvars, hvars, rvars, cvars, rrvars, wvars>>

\* the caller's cancellation signal fires before the slot is resolved: the
\* slot is removed and that call returns a cancellation error
CancelControlRequest(id) ==
    /\ id \in pending
    /\ pending' = pending \ {id}
    /\ slot' = [slot EXCEPT ![id] = "cancelled"]
    /\ ret' = NoRet
    /\ UNCHANGED <<script, fvars, dvars, hvars, t, rvars, cvars, rrvars, wvars>>

\* the correlator takes the next record from the queue of the transport
\* and routes it: a control response resolves and removes the slot of its
\* identifier (without one it is an anomaly and nothing changes), a control
\* request of the child is answered through Write, a content message goes
\* to the caller
QRoute ==
    /\ GetMessages # <<>>
    /\ LET m == Head(GetMessages)
           k == script[m]
       IN /\ messages' = Tail(GetMessages)
          /\ IF \E id \in RequestIds : k = ResponseLine[id]
             THEN LET id == CHOOSE i \in RequestIds : k = ResponseLine[i] IN
                  /\ pending' = pending \ {id}
                  /\ slot' = IF id \in pending THEN [slot EXCEPT ![id] = k] ELSE slot
                  /\ UNCHANGED <<t, taken>>
             ELSE IF k \in ChildRequests
             THEN /\ t' = TWrite(t, Answer(k)).t
                  /\ UNCHANGED <<pending, slot, taken>>
             ELSE /\ taken' = Append(taken, m)
                  /\ UNCHANGED <<t, pending, slot>>
    /\ ret' = NoRet
    /\ UNCHANGED <<script, fvars, dvars, hvars, messagesClosed, rpc, rpos, rheld, rexit, cvars,
                   rr_pc, rr_ctxDone, rr_held, outputChan, outputClosed, ncalls,
                   callOut, allOut, wvars>>

\* ---------------------------------------------------------------- client

NumUserLines(lines) == Cardinality({i \in 1..Len(lines) : lines[i] # "control_request:initialize"})

\* a check that lets a connected client connect again
ConnectCheck_Never(connected) == "nil"

\* the check Client.Connect makes before it touches the transport
ConnectCheck(connected) ==
    IF connected THEN "err_already_connected" ELSE "nil"

\* Client.Connect up to the point where Initialize waits for its response:
\* transport.Connect, NewQuery, Query.Start and the write of the initialize
\* control request
ConnectBegin(started, how) ==
    /\ cpc = "idle"
    /\ IF ConnectCheck(c_connected) # "nil"
       THEN /\ ret' = Ret("Connect", ConnectCheck(c_connected))
            /\ UNCHANGED <<t, rpc, cvars>>
       ELSE LET tc == TConnect(t, started)
                tw == TWrite(tc, "control_request:initialize")
            IN  /\ rpc' = IF Launched(t, tc) THEN "read" ELSE rpc
                /\ IF TConnectErr(t, started)
                   THEN /\ t' = tc
                        /\ ret' = Ret("Connect", "err_connection")
                        /\ UNCHANGED cvars
                   ELSE IF tw.res # "nil"
                   THEN /\ t' = TClose(tw.t, how)
                        /\ c_query' = TRUE
                        /\ q_state' = QStop
                        /\ ret' = Ret("Connect", "err_initialize")
                        /\ UNCHANGED <<c_connected, cpc>>
                   ELSE /\ t' = tw.t
                        /\ c_query' = TRUE
                        /\ q_state' = QStart
                        /\ cpc' = "handshake"
                        /\ ret' = NoRet
                        /\ UNCHANGED c_connected
    /\ UNCHANGED <<script, pvars, wvars, messages, messagesClosed, rpos, rheld, rexit, rrvars>>

\* a failure path that returns without closing the transport
ConnectFail_NoClose(how) ==
    /\ q_state' = QStop
    /\ cpc' = "idle"
    /\ ret' = Ret("Connect", "err_initialize")
    /\ UNCHANGED <<t, c_connected, c_query>>

\* the handshake failed: Query.Stop, transport.Close, return the error
ConnectFail(how) ==
    /\ q_state' = QStop
    /\ t' = TClose(t, how)
    /\ cpc' = "idle"
    /\ ret' = Ret("Connect", "err_initialize")
    /\ UNCHANGED <<c_connected, c_query>>

\* the rest of Client.Connect: Initialize returns, with the response or
\* with an error (error response, cancellation, timeout)
ConnectFinish(ok, how) ==
    /\ cpc = "handshake"
    /\ IF ok
       THEN /\ c_connected' = TRUE
            /\ cpc' = "idle"
            /\ ret' = Ret("Connect", "nil")
            /\ UNCHANGED <<t, c_query, q_state>>
       ELSE ConnectFail(how)
    /\ UNCHANGED <<script, pvars, wvars, rvars, rrvars>>

\* checks that let an empty prompt through
QueryCheck_NoPromptCheck(connected, prompt) ==
    IF ~connected THEN "err_not_connected"
    ELSE "nil"

\* the checks Client.Query makes before it touches the transport
QueryCheck(connected, prompt) ==
    IF ~connected THEN "err_not_connected"
    ELSE IF prompt = "" THEN "err_empty_prompt"
    ELSE "nil"

\* Client.Query(ctx, prompt); ctxDone says whether ctx is already cancelled
Query(prompt, ctxDone) ==
    /\ cpc = "idle"
    /\ LET chk == QueryCheck(c_connected, prompt)
           tw == TWrite(t, prompt)
       IN  IF chk # "nil"
           THEN /\ ret' = Ret("Query", chk)
                /\ UNCHANGED t
           ELSE /\ NumUserLines(t.stdin) < MaxQueries
                /\ t' = tw.t
                /\ ret' = Ret("Query", tw.res)
    /\ UNCHANGED <<script, pvars, wvars, rvars, cvars, rrvars>>

\* a Close that does not look at c.connected
Close_Unchecked(how) ==
    /\ cpc = "idle"
    /\ CanEnd(t, how)
    /\ q_state' = IF c_query THEN QStop ELSE q_state
    /\ c_query' = FALSE
    /\ t' = TClose(t, how)
    /\ c_connected' = FALSE
    /\ ret' = Ret("Close", TCloseRes(t, how))
    /\ UNCHANGED cpc
    /\ UNCHANGED <<script, pvars, wvars, rvars, rrvars>>

\* Client.Close
Close(how) ==
    /\ cpc = "idle"
    /\ CanEnd(t, how)
    /\ IF ~c_connected
       THEN /\ ret' = Ret("Close", "nil")
            /\ UNCHANGED <<t, cvars>>
       ELSE /\ q_state' = IF c_query THEN QStop ELSE q_state
            /\ c_query' = FALSE
            /\ t' = TClose(t, how)
            /\ c_connected' = FALSE
            /\ ret' = Ret("Close", TCloseRes(t, how))
            /\ UNCHANGED cpc
    /\ UNCHANGED <<script, pvars, wvars, rvars, rrvars>>

\* NewClient(ctx, options) on an options value that is not nil; found says
\* whether transport.FindCLI finds the executable.  The result is the
\* options value as the call leaves it, the error (or "nil"), and the
\* executable and working directory the client's transport was made with.
NewClient(opts, found) ==
    IF opts.canUseTool /\ opts.promptTool # "nil"
    THEN [options |-> opts, err |-> "err_config", cliPath |-> "none", cwd |-> "none"]
    ELSE LET o == IF opts.canUseTool /\ opts.promptTool = "nil"
                  THEN [opts EXCEPT !.promptTool = "stdio"]
                  ELSE opts
         IN  IF o.cliPath = "nil" /\ ~found
             THEN [options |-> o, err |-> "err_cli_not_found", cliPath |-> "none",
                   cwd |-> "none"]
             ELSE [options |-> o, err |-> "nil",
                   cliPath |-> IF o.cliPath = "nil" THEN "found" ELSE o.cliPath,
                   cwd |-> IF o.cwd = "nil" THEN "" ELSE o.cwd]

\* the caller calls NewClient with the options value
DoNewClient(found) ==
    /\ Len(created) < MaxNew
    /\ LET r == NewClient(options, found) IN
       /\ options' = r.options
       /\ created' = Append(created, [err |-> r.err, cliPath |-> r.cliPath, cwd |-> r.cwd])
    /\ UNCHANGED <<script, t, rvars, cvars, rrvars, ret, wvars, fvars, qvars, dvars,
                   ivars, evars, options0>>

\* ------------------------------------------------------- ReceiveResponse
\* Client.ReceiveResponse: make the output channel, start the goroutine.
\* The caller reads one call's channel to its end before it calls again.
ReceiveResponse ==
    /\ cpc = "idle"
    /\ rr_pc \in {"none", "done"}
    /\ outputChan = <<>>
    /\ ncalls < MaxCalls
    /\ rr_pc' = "start"
    /\ rr_ctxDone' = FALSE
    /\ rr_held' = 0
    /\ outputChan' = <<>>
    /\ outputClosed' = FALSE
    /\ callOut' = <<>>
    /\ ret' = Ret("ReceiveResponse", "chan")
    /\ UNCHANGED <<script, pvars, wvars, t, rvars, cvars, ncalls, taken, allOut>>

\* the goroutine takes c.mu and looks up the session queue
RRStart ==
    /\ rr_pc = "start"
    /\ cpc = "idle"
    /\ IF ~c_connected \/ ~c_query
       THEN rr_pc' = "done" /\ outputClosed' = TRUE /\ UNCHANGED ncalls
       ELSE rr_pc' = "recv" /\ ncalls' = ncalls + 1 /\ UNCHANGED outputClosed
    /\ UNCHANGED <<script, pvars, wvars, t, rvars, cvars, rr_ctxDone, rr_held, outputChan,
                   taken, callOut, allOut>>
    /\ ret' = NoRet

\* select { case <-ctx.Done(): return; case msg, ok := <-messagesChan: }
RRRecv ==
    /\ rr_pc = "recv"
    /\ \/ /\ rr_ctxDone
          /\ rr_pc' = "done"
          /\ outputClosed' = TRUE
          /\ UNCHANGED <<messages, rr_held, taken>>
       \/ /\ GetMessages # <<>>
          /\ rr_held' = Head(GetMessages)
          /\ messages' = Tail(GetMessages)
          /\ taken' = Append(taken, Head(GetMessages))
          /\ rr_pc' = "fwd"
          /\ UNCHANGED outputClosed
       \/ /\ GetMessages = <<>>
          /\ messagesClosed
          /\ rr_pc' = "done"
          /\ outputClosed' = TRUE
          /\ UNCHANGED <<messages, rr_held, taken>>
    /\ UNCHANGED <<script, pvars, wvars, t, messagesClosed, rpc, rpos, rheld, rexit, cvars,
                   rr_ctxDone, outputChan, ncalls, callOut, allOut>>
    /\ ret' = NoRet

\* a forward that does not stop at a ResultMessage
RRForward_PastResult ==
    /\ rr_pc = "fwd"
    /\ \/ /\ Len(outputChan) < OutputCap
          /\ outputChan' = Append(outputChan, rr_held)
          /\ callOut' = Append(callOut, rr_held)
          /\ allOut' = Append(allOut, rr_held)
          /\ rr_pc' = "recv"
          /\ UNCHANGED outputClosed
       \/ /\ rr_ctxDone
          /\ rr_pc' = "done"
          /\ outputClosed' = TRUE
          /\ UNCHANGED <<outputChan, callOut, allOut>>
    /\ rr_held' = 0
    /\ UNCHANGED <<script, pvars, wvars, t, rvars, cvars, rr_ctxDone, ncalls, taken>>
    /\ ret' = NoRet

\* select { case outputChan <- msg: ...; case <-ctx.Done(): return }
RRForward ==
    /\ rr_pc = "fwd"
    /\ \/ /\ Len(outputChan) < OutputCap
          /\ outputChan' = Append(outputChan, rr_held)
          /\ callOut' = Append(callOut, rr_held)
          /\ allOut' = Append(allOut, rr_held)
          /\ IF IsResult(rr_held)
             THEN rr_pc' = "done" /\ outputClosed' = TRUE
             ELSE rr_pc' = "recv" /\ UNCHANGED outputClosed
       \/ /\ rr_ctxDone
          /\ rr_pc' = "done"
          /\ outputClosed' = TRUE
          /\ UNCHANGED <<outputChan, callOut, allOut>>
    /\ rr_held' = 0
    /\ UNCHANGED <<script, pvars, wvars, t, rvars, cvars, rr_ctxDone, ncalls, taken>>
    /\ ret' = NoRet

\* the caller cancels the context it passed to ReceiveResponse
CancelReceive ==
    /\ rr_pc \in {"start", "recv", "fwd"}
    /\ ~rr_ctxDone
    /\ rr_ctxDone' = TRUE
    /\ UNCHANGED <<script, pvars, wvars, t, rvars, cvars, rr_pc, rr_held, outputChan, outputClosed,
                   ncalls, taken, callOut, allOut>>
    /\ ret' = NoRet

\* the caller, ranging over the channel ReceiveResponse returned, receives
\* the messages buffered in it
Consume ==
    /\ outputChan # <<>>
    /\ outputChan' = <<>>
    /\ UNCHANGED <<script, pvars, wvars, t, rvars, cvars, rr_pc, rr_ctxDone, rr_held, outputClosed,
                   ncalls, taken, callOut, allOut>>
    /\ ret' = NoRet

\* --------------------------------------------------------- specification
\* every script of at most n lines over the kinds K
RECURSIVE ScriptsUpTo(_, _)
ScriptsUpTo(K, n) ==
    IF n = 0 THEN {<<>>}
    ELSE ScriptsUpTo(K, n - 1) \cup
         {Append(s, k) : s \in {x \in ScriptsUpTo(K, n - 1) : Len(x) = n - 1}, k \in K}

\* a run of assistant messages with at most one other line in it
FloodScripts ==
    {[i \in 1..FloodLen |-> IF i = p THEN k ELSE "assistant"] :
        p \in 0..FloodLen, k \in FloodKinds}

T0 == [cmd |-> FALSE, ready |-> FALSE, err |-> NoErr, ctxDone |-> FALSE,
       waited |-> FALSE, closing |-> FALSE, proc |-> "none", stdin |-> <<>>]

InitCore ==
    /\ t = T0
    /\ messages = <<>>
    /\ messagesClosed = FALSE
    /\ rpc = "idle"
    /\ rpos = 1
    /\ rheld = 0
    /\ rexit = "none"
    /\ c_connected = FALSE
    /\ c_query = FALSE
    /\ cpc = "idle"
    /\ q_state = "idle"
    /\ rr_pc = "none"
    /\ rr_ctxDone = FALSE
    /\ rr_held = 0
    /\ outputChan = <<>>
    /\ outputClosed = FALSE
    /\ ncalls = 0
    /\ taken = <<>>
    /\ callOut = <<>>
    /\ allOut = <<>>
    /\ ret = NoRet
    /\ wpc = [w \in Writers |-> "idle"]
    /\ wmu = "none"
    /\ wbuf = <<>>
    /\ wire = <<>>
    /\ wlog = <<>>

\* no JSONLineReader is under examination
InitFramerIdle ==
    /\ fstream = <<>>
    /\ freader = NewJSONLineReader
    /\ flines = <<>>

\* no control request has been issued
InitCorrelator ==
    /\ pending = {}
    /\ slot = [id \in RequestIds |-> "unsent"]

\* no record is under examination
InitDecoderIdle ==
    /\ drec = [json |-> "empty", type |-> "absent", content |-> NoBlocks,
            fields |-> "absent", extra |-> FALSE]
    /\ dpc = "done"
    /\ dout = [type |-> NoType, msg |-> NoMsg, blocks |-> NoParsedBlocks]

\* no call of GetError or IsReady is in progress
InitInspect == ipc = [op \in Inspectors |-> "idle"]

\* the stderr pipe of a child that has written nothing
InitStderr == stderrPipe = 0

\* the options NewClaudeAgentOptions returns
DefaultOptions ==
    [canUseTool |-> FALSE, promptTool |-> "nil", cliPath |-> "nil", cwd |-> "nil"]

\* no options value is under examination
InitOptionsIdle ==
    /\ options = DefaultOptions
    /\ options0 = DefaultOptions
    /\ created = <<>>

InitIdle == InitInspect /\ InitStderr /\ InitOptionsIdle

InitSession ==
    InitCore /\ InitFramerIdle /\ InitCorrelator /\ InitDecoderIdle /\ InitIdle

Init == script \in ScriptsUpTo(LineKinds, MaxLines) /\ InitSession

InitLive == script \in ScriptsUpTo(LiveKinds, LiveLines) /\ InitSession

InitFlood == script \in FloodScripts /\ InitSession

InitCall == script \in CallScripts /\ InitSession

Next ==
    \/ \E started \in BOOLEAN, how \in CloseOutcomes : ConnectBegin(started, how)
    \/ \E ok \in BOOLEAN, how \in CloseOutcomes : ConnectFinish(ok, how)
    \/ \E p \in Prompts, cx \in BOOLEAN : Query(p, cx)
    \/ \E how \in CloseOutcomes : Close(how)
    \/ ReceiveResponse
    \/ RRStart
    \/ RRRecv
    \/ RRForward
    \/ CancelReceive
    \/ Consume
    \/ ReaderCheck
    \/ ReaderReadLine
    \/ ReaderPipeClosed
    \/ ReaderSend
    \/ ChildExit

Spec == Init /\ [][Next]_vars

CallSpec == InitCall /\ [][Next]_vars

\* a session in which no user turn is sent: what the child writes does not
\* depend on what it is sent, so the path from stdout to the caller is the
\* same
StreamNext ==
    \/ \E started \in BOOLEAN, how \in CloseOutcomes : ConnectBegin(started, how)
    \/ \E ok \in BOOLEAN, how \in CloseOutcomes : ConnectFinish(ok, how)
    \/ \E how \in CloseOutcomes : Close(how)
    \/ ReceiveResponse
    \/ RRStart
    \/ RRRecv
    \/ RRForward
    \/ CancelReceive
    \/ Consume
    \/ ReaderCheck
    \/ ReaderReadLine
    \/ ReaderPipeClosed
    \/ ReaderSend
    \/ ChildExit

StreamSpec == Init /\ [][StreamNext]_vars

TransportNext ==
    \/ \E started \in BOOLEAN : TransportConnect(started)
    \/ \E cx \in BOOLEAN : TransportWrite("hi", cx)
    \/ TransportCloseBegin
    \/ \E how \in CloseOutcomes : TransportCloseEnd(how)
    \/ ChildKilled
    \/ TakeMessage
    \/ ReaderCheck
    \/ ReaderReadLine
    \/ ReaderPipeClosed
    \/ ReaderSend
    \/ ChildExit

TransportSpec == InitFlood /\ [][TransportNext]_vars

\* the kill that follows the cancellation of t.ctx is carried out, and the
\* select of Close takes the result of cmd.Wait once it is there; neither
\* a child that exits on its own nor a deadline that passes is assumed
CloseFairness ==
    /\ WF_vars(ChildKilled)
    /\ WF_vars(\E how \in CloseOutcomes \ {"killed"} : TransportCloseEnd(how))

CloseSpec == InitCall /\ [][TransportNext]_vars /\ CloseFairness

\* the transport with its callers of Write, Write taken step by step
InitWriter == script = <<>> /\ InitSession

WriterNext ==
    \/ \E started \in BOOLEAN : TransportConnect(started)
    \/ \E w \in Writers : WCall(w)
    \/ \E w \in Writers : WBegin(w)
    \/ \E w \in Writers : WData(w)
    \/ \E w \in Writers : WNewline(w)
    \/ \E w \in Writers : WFlush(w)
    \/ ChildExit

WriterSpec == InitWriter /\ [][WriterNext]_vars

\* a JSONLineReader of some maximum over a stream of records
InitFramer ==
    /\ script = <<>>
    /\ InitCore
    /\ \E m \in MaxSizes :
          /\ freader = NewJSONLineReaderWithSize(m)
          /\ fstream \in ScriptsUpTo(RecordSizes(m), MaxRecords)
    /\ flines = <<>>
    /\ InitCorrelator
    /\ InitDecoderIdle
    /\ InitIdle

FramerNext == FramerReadLine

FramerSpec == InitFramer /\ [][FramerNext]_vars

\* the content fields tried: absent, null, a string, a number, and every
\* array of at most MaxBlocks elements
Contents ==
    {[shape |-> c, blocks |-> <<>>] : c \in {"absent", "null", "string", "number"}}
    \cup {[shape |-> "array", blocks |-> b] : b \in ScriptsUpTo(BlockKinds, MaxBlocks)}

\* the records tried: every JSON object over the field values, broken JSON,
\* zero bytes, and JSON that is not an object
Records ==
    [json : {"object"}, type : TypeValues, content : Contents,
     fields : {"ok", "absent", "badshape"}, extra : BOOLEAN]
    \cup {[json |-> j, type |-> "absent", content |-> NoBlocks,
           fields |-> "absent", extra |-> FALSE] : j \in {"malformed", "empty", "array"}}

InitDecoder ==
    /\ script = <<>>
    /\ InitCore
    /\ InitFramerIdle
    /\ InitCorrelator
    /\ InitIdle
    /\ drec \in Records
    /\ dpc = "new"
    /\ dout = [type |-> NoType, msg |-> NoMsg, blocks |-> NoParsedBlocks]

DecoderNext ==
    \/ DoExtractType
    \/ DoParseMessage
    \/ DoParseContentBlocks

DecoderSpec == InitDecoder /\ [][DecoderNext]_vars

\* a session over the transport in which control requests are issued and
\* cancelled while the child sends content, control responses and control
\* requests of its own; the child stays alive and the session is not closed
InitCtl == script \in ScriptsUpTo(CtlKinds, CtlLines) /\ InitSession

CtlNext ==
    \/ \E started \in BOOLEAN : TransportConnect(started)
    \/ \E id \in RequestIds : SendControlRequest(id)
    \/ \E id \in RequestIds : CancelControlRequest(id)
    \/ QRoute
    \/ ReaderReadLine
    \/ ReaderSend

\* the read loop and the correlator are scheduled; no caller is assumed to
\* cancel
CtlFairness ==
    /\ WF_vars(ReaderReadLine)
    /\ WF_vars(ReaderSend)
    /\ WF_vars(QRoute)

CtlSpec == InitCtl /\ [][CtlNext]_vars /\ CtlFairness

\* the transport with callers of Write, of Close and of GetError / IsReady
\* on goroutines of their own
InspectNext ==
    \/ \E started \in BOOLEAN : TransportConnect(started)
    \/ \E w \in Writers : WCall(w)
    \/ \E w \in Writers : WBegin(w)
    \/ \E w \in Writers : WData(w)
    \/ \E w \in Writers : WNewline(w)
    \/ \E w \in Writers : WFlush(w)
    \/ TransportCloseBegin
    \/ \E how \in CloseOutcomes : TransportCloseEnd(how)
    \/ ChildKilled
    \/ ChildExit
    \/ \E op \in Inspectors : InspectCall(op)
    \/ \E op \in Inspectors : InspectReturn(op)

InspectSpec == InitWriter /\ [][InspectNext]_vars

\* the transport over a child that writes to its stderr without end and
\* does not exit on its own.  ReadStderr is no step of it: Connect does not
\* launch readStderr and nothing else calls it.
StderrNext ==
    \/ \E started \in BOOLEAN : TransportConnect(started)
    \/ ChildWriteStderr
    \/ TransportCloseBegin
    \/ \E how \in CloseOutcomes : TransportCloseEnd(how)
    \/ ChildKilled
    \/ TakeMessage
    \/ ReaderCheck
    \/ ReaderReadLine
    \/ ReaderPipeClosed
    \/ ReaderSend

\* the child and the read loop are scheduled, and a Close that was called
\* completes; no caller is assumed to call Close
StderrFairness ==
    /\ WF_vars(ChildWriteStderr)
    /\ WF_vars(ReaderReadLine)
    /\ WF_vars(ReaderSend)
    /\ CloseFairness

StderrSpec == InitCall /\ [][StderrNext]_vars /\ StderrFairness

\* the options values a caller makes: a permission callback or none, a
\* permission-prompt tool name or none, an executable path or none, a
\* working directory or none
AllOptions ==
    [canUseTool : BOOLEAN, promptTool : {"nil", "stdio", "custom"},
     cliPath : {"nil", "/bin/echo"}, cwd : {"nil", "/tmp"}]

\* NewClient called again and again with one options value
InitOptions ==
    /\ script = <<>>
    /\ InitCore
    /\ InitFramerIdle
    /\ InitCorrelator
    /\ InitDecoderIdle
    /\ InitInspect
    /\ InitStderr
    /\ options0 \in AllOptions
    /\ options = options0
    /\ created = <<>>

OptionsNext == \E found \in BOOLEAN : DoNewClient(found)

OptionsSpec == InitOptions /\ [][OptionsNext]_vars

\* the goroutines are scheduled, a read on a closed pipe returns, a caller
\* ranging over a channel keeps receiving, and a blocking handshake returns
Fairness ==
    /\ WF_vars(ReaderCheck)
    /\ WF_vars(ReaderReadLine)
    /\ WF_vars(ReaderPipeClosed)
    /\ WF_vars(ReaderSend)
    /\ WF_vars(RRStart)
    /\ WF_vars(RRRecv)
    /\ WF_vars(RRForward)
    /\ WF_vars(Consume)
    /\ WF_vars(\E ok \in BOOLEAN, how \in CloseOutcomes : ConnectFinish(ok, how))

LiveSpec == InitLive /\ [][StreamNext]_vars /\ Fairness

\* ------------------------------------------------------------ properties
Range(s) == {s[i] : i \in 1..Len(s)}

IsPrefix(a, b) == Len(a) <= Len(b) /\ \A i \in 1..Len(a) : a[i] = b[i]

Increasing(s) == \A i, j \in 1..Len(s) : i < j => s[i] < s[j]

\* the lines among the first n of the script that carry a content record
RECURSIVE ContentUpTo(_)
ContentUpTo(n) ==
    IF n = 0 THEN <<>>
    ELSE IF script[n] \in ContentTypes
    THEN Append(ContentUpTo(n - 1), n)
    ELSE ContentUpTo(n - 1)

\* the valid content records the child emitted, in emission order
Emitted == ContentUpTo(Len(script))

\* what has been put on the transport's message channel so far
Enqueued == taken \o messages

\* what the read loop has decoded and not lost
Held == IF rheld = 0 THEN <<>> ELSE <<rheld>>

\* ---------------------------------------------------------------- claims

\* C1: content messages reach the caller in the order the child emitted
\* them: what has been put on the transport's message channel, and what has
\* been sent on the ReceiveResponse channels, is each a prefix of the
\* emitted sequence of valid content records (nothing reordered, nothing
\* duplicated, nothing skipped).
C1_DeliveredIsPrefix ==
    /\ IsPrefix(Enqueued, Emitted)
    /\ IsPrefix(allOut, Emitted)

\* what does hold of C1: the transport channel carries a prefix, and the
\* ReceiveResponse channels carry an increasing selection of it
C1_OrderKept ==
    /\ IsPrefix(Enqueued, Emitted)
    /\ Increasing(allOut)
    /\ Range(allOut) \subseteq Range(taken)

HasResult(s) == \E i \in 1..Len(s) : IsResult(s[i])

\* C2: one ReceiveResponse call forwards messages up to and including the
\* first ResultMessage and then closes its channel; once it has forwarded a
\* ResultMessage it takes nothing more from the session queue (the result
\* is the last message taken from it).
C2_StopsAtResult ==
    HasResult(callOut) =>
        /\ IsResult(callOut[Len(callOut)])
        /\ \A i \in 1..(Len(callOut) - 1) : ~IsResult(callOut[i])
        /\ rr_pc = "done"
        /\ outputClosed
        /\ rr_held = 0
        /\ taken[Len(taken)] = callOut[Len(callOut)]

\* a second call has forwarded the message that followed the result the
\* first call ended on
C2_Witness ==
    /\ ncalls = 2
    /\ Len(allOut) = 2
    /\ IsResult(allOut[1])
    /\ callOut = <<allOut[2]>>
    /\ allOut[2] = allOut[1] + 1

\* C3: no control_request or control_response record is ever on the
\* message channel, taken from it, or forwarded by ReceiveResponse.
C3_NoControlInQueue ==
    \A m \in Range(messages) \cup Range(taken) \cup Range(allOut) \cup Range(Held) :
        script[m] \notin ControlTypes

\* the read loop has passed a control record and delivered the content
\* record behind it
C3_Witness ==
    \E i \in 1..Len(script) :
        /\ script[i] \in ControlTypes
        /\ i < rpos
        /\ \E m \in Range(allOut) : m > i

\* C4: the message channel never holds more than its capacity, and while
\* the transport is not closed or cancelled no decoded content record is
\* dropped: the records decoded so far are exactly those taken by the
\* consumer, those in the channel, and the one the read loop is blocked on.
C4_BackpressureNoLoss ==
    /\ Len(messages) <= MessagesCap
    /\ ~t.ctxDone => Enqueued \o Held = ContentUpTo(rpos - 1)

\* the channel is full and the read loop waits with the next message
C4_Witness ==
    /\ Len(messages) = MessagesCap
    /\ rpc = "send"
    /\ rheld # 0
    /\ ~t.ctxDone

AtEOF == rpc = "read" /\ rpos > Len(script) /\ t.proc # "running"

\* C6: once stdout is at end of stream the read loop exits and the message
\* channel is closed, and a ReceiveResponse call ranging over a closed
\* channel ends and closes its own channel.
C6_EOFClosesQueue ==
    /\ AtEOF ~> (rpc = "done" /\ messagesClosed)
    /\ (messagesClosed /\ rr_pc \in {"recv", "fwd"}) ~> (rr_pc = "done" /\ outputClosed)

\* the loop returned at end of stream and a ReceiveResponse call that was
\* waiting on the empty channel has ended without a result
C6_Witness ==
    /\ rexit = "eof"
    /\ messagesClosed
    /\ messages = <<>>
    /\ rr_pc = "done"
    /\ outputClosed
    /\ ~rr_ctxDone
    /\ ~HasResult(callOut)

\* C7: after a framing failure the loop has stopped, the channel is closed
\* and the error slot holds that framing failure, whatever was recorded
\* before.
C7_FramingFailureRecorded ==
    rexit = "framing" =>
        /\ rpc = "done"
        /\ messagesClosed
        /\ t.err.src = "framing"

\* C8: Query with an empty prompt, or on a client that is not connected,
\* returns an error and changes nothing: nothing is written to the child
\* and the client and transport state stay as they were.
C8_QueryRejected ==
    [][\A p \in Prompts, cx \in BOOLEAN :
         (Query(p, cx) /\ (p = "" \/ ~c_connected)) =>
            /\ ret'.res \in {"err_not_connected", "err_empty_prompt"}
            /\ UNCHANGED <<t, rvars, cvars, rrvars>>]_vars

\* Query has just refused an empty prompt on a connected, ready session,
\* and the child has received nothing but the handshake
C8_Witness ==
    /\ ret = Ret("Query", "err_empty_prompt")
    /\ c_connected
    /\ t.ready
    /\ t.stdin = <<"control_request:initialize">>

\* C9: Query called with a cancelled context returns an error and does not
\* write the user message.
C9_QueryCancelled ==
    [][\A p \in Prompts :
         Query(p, TRUE) => ret'.res # "nil" /\ t'.stdin = t.stdin]_vars

\* C11: Connect on a connected client returns the already-connected error
\* and changes nothing: the transport (its child, its stdin), the read loop,
\* the correlator and the connected flag stay as they were.
C11_ConnectTwiceRejected ==
    [][\A started \in BOOLEAN, how \in CloseOutcomes :
         (ConnectBegin(started, how) /\ c_connected) =>
            /\ ret' = Ret("Connect", "err_already_connected")
            /\ UNCHANGED <<t, rvars, cvars, rrvars>>]_vars

\* Connect has just been refused on a connected session whose child has
\* received the one handshake
C11_Witness ==
    /\ ret = Ret("Connect", "err_already_connected")
    /\ c_connected
    /\ t.ready
    /\ t.proc = "running"
    /\ t.stdin = <<"control_request:initialize">>

\* C10: when the initialize handshake fails, Connect returns an error with
\* the client not connected, the correlator stopped and the transport
\* closed.
C10_HandshakeFailure ==
    ret = Ret("Connect", "err_initialize") =>
        /\ ~c_connected
        /\ cpc = "idle"
        /\ q_state = "stopped"
        /\ ~t.ready
        /\ t.ctxDone
        /\ t.waited
        /\ t.proc # "running"

\* Connect has just failed on a handshake whose request the child received
C10_Witness ==
    /\ ret = Ret("Connect", "err_initialize")
    /\ t.stdin = <<"control_request:initialize">>
    /\ ~c_connected
    /\ t.waited

\* C12: Connect on a transport that is already connected returns nil and
\* has no effect: the child, its stdin, the read loop and the message
\* channel stay as they were.
C12_TransportConnectIdempotent ==
    [][\A started \in BOOLEAN :
         (TransportConnect(started) /\ t.cmd /\ t.ready) =>
            /\ ret' = Ret("Transport.Connect", "nil")
            /\ UNCHANGED <<t, rvars, cvars, rrvars>>]_vars

\* Connect has just returned nil on a ready transport whose child has
\* already been written to and whose read loop has already read a line
C12_Witness ==
    /\ ret = Ret("Transport.Connect", "nil")
    /\ t.ready
    /\ t.proc = "running"
    /\ t.stdin = <<"hi">>
    /\ rpos > 1

\* C13: once Close has run on a session that was started (cmd.Wait has
\* returned), it stays closed: whatever Connect calls follow, the transport
\* is never ready again and the client is never connected again.
C13_NoReconnect ==
    /\ [](t.waited => ~t.ready /\ ~c_connected)
    /\ [][t.waited => t'.waited]_vars

\* a client that was connected has been closed, and a Connect made after
\* that has just failed
C13_Witness ==
    /\ ret = Ret("Connect", "err_initialize")
    /\ ncalls >= 1
    /\ t.waited
    /\ ~t.ready
    /\ ~c_connected

\* C14: a running child is forcibly terminated only by the deadline branch
\* of Close (the deadline elapsed before the child had exited), never by an
\* earlier step of Close.
C14_ForcedOnlyAtDeadline ==
    [][(t.proc = "running" /\ t'.proc = "killed") => TransportCloseEnd("killed")]_vars

C16_CloseReportsEnd ==
    [][\A how \in CloseOutcomes :
         (TransportCloseEnd(how) /\ ~t.waited /\ t.proc # "none") =>
            /\ ret'.res \in {"nil", "process_error"} => t'.proc = "exited"
            /\ ret'.res = "process_killed" <=> (how = "killed" /\ t.proc = "running")]_vars

\* C17: every Close leaves the client not connected, whatever it returns,
\* and a Close on a client that is not connected returns nil and touches
\* neither the correlator nor the transport.
C17_CloseIdempotent ==
    [][\A how \in CloseOutcomes :
         Close(how) =>
            /\ ~c_connected'
            /\ ~c_connected =>
                 /\ ret' = Ret("Close", "nil")
                 /\ UNCHANGED <<t, rvars, cvars, rrvars>>]_vars

\* a Close has just returned nil on a client whose first Close returned an
\* error, its child having been killed
C17_Witness ==
    /\ ret = Ret("Close", "nil")
    /\ ~c_connected
    /\ ~c_query
    /\ q_state = "stopped"
    /\ t.waited
    /\ t.proc = "killed"

\* Close has run on a connected client
Closed == ~c_connected /\ ~c_query /\ q_state = "stopped"

Line(w) == Payload(w) \o <<"\n">>

\* s is a run of whole lines
RECURSIVE WholeLines(_)
WholeLines(s) ==
    \/ s = <<>>
    \/ \E w \in Writers :
          /\ Len(Line(w)) <= Len(s)
          /\ SubSeq(s, 1, Len(Line(w))) = Line(w)
          /\ WholeLines(SubSeq(s, Len(Line(w)) + 1, Len(s)))

\* the lines of the calls in l, one after the other
RECURSIVE Flat(_)
Flat(l) == IF l = <<>> THEN <<>> ELSE Line(Head(l)) \o Flat(Tail(l))

\* C19: whatever the interleaving of the callers of Write, the bytes the
\* child has received are a run of whole lines: the bytes of two lines are
\* never mixed.
C19_LinesNotInterleaved ==
    WholeLines(wire)

\* the child has received the line of one caller, which now waits at the
\* lock with its next line while the other caller is about to flush
C19_Witness ==
    \E a, b \in Writers :
        /\ a # b
        /\ wlog = <<a>>
        /\ wire = Line(a)
        /\ wpc[a] = "lock"
        /\ wpc[b] = "flush"

\* C20: when no Write is in progress and none has failed, the child has
\* received exactly payload + "\n" for each call that returned nil, in call
\* order, and nothing is left in the buffer.
C20_WriteLineFramesAndFlushes ==
    (wmu = "none" /\ t.err.src # "write") =>
        /\ wbuf = <<>>
        /\ wire = Flat(wlog)

\* a second Write of the same caller has just returned nil
C20_Witness ==
    /\ ret = Ret("Transport.Write", "nil")
    /\ wlog = <<"user", "user">>
    /\ wmu = "none"
    /\ wire = <<"u1", "u2", "\n", "u1", "u2", "\n">>

\* C21: for every configured maximum, ReadLine never returns a record longer
\* than maxSize, returns a record of exactly maxSize bytes, and fails with
\* the framing error on a record of maxSize + 1 bytes.
C21_FramerEnforcesMax ==
    \A i \in 1..Len(flines) :
        i <= Len(fstream) =>
            /\ flines[i].res = "line" => flines[i].len <= freader.maxSize
            /\ fstream[i] = freader.maxSize =>
                   flines[i] = [res |-> "line", len |-> freader.maxSize]
            /\ fstream[i] = freader.maxSize + 1 => flines[i].res = "toolong"

\* the child has yet to emit, or the read loop has yet to read, the control
\* response that carries the identifier id
ResponseToCome(id) ==
    /\ rpc \in {"read", "send"}
    /\ \E p \in 1..Len(script) : p >= rpos /\ script[p] = ResponseLine[id]

\* the caller of the request id has been released with its own response,
\* or has cancelled
Released(id) ==
    /\ id \notin pending
    /\ slot[id] \in {ResponseLine[id], "cancelled"}

\* C22: a control response whose identifier matches an outstanding request
\* resolves that request's slot with the response and removes the entry
\* from the pending table, releasing the waiting caller.
C22_ResponseResolvesSlot ==
    \A id \in RequestIds :
        (id \in pending /\ ResponseToCome(id)) ~> Released(id)

\* two requests are outstanding and both responses are still to come
BothOutstanding ==
    /\ pending = RequestIds
    /\ \A id \in RequestIds : ResponseToCome(id)

\* C23: with two outbound control requests outstanding at once and their
\* responses arriving in any order, each caller is resolved with the
\* response carrying its own request identifier, never with the other's.
C23_NoCrossWiring ==
    /\ [](\A id \in RequestIds :
            slot[id] \in {ResponseLine[o] : o \in RequestIds} => slot[id] = ResponseLine[id])
    /\ (BothOutstanding ~> (\A id \in RequestIds : Released(id)))

\* the read loop reads a control response whose identifier has no pending
\* slot (the request was cancelled, or was never sent)
ReadsUnmatched(id) ==
    /\ rpc = "read"
    /\ rpos <= Len(script)
    /\ script[rpos] = ResponseLine[id]
    /\ id \notin pending
    /\ rpos' = rpos + 1

CanAnswer == t.ready /\ t.proc = "running"

\* the read loop has read the control request k of the child
ChildAsked(k) ==
    \E p \in 1..Len(script) : p < rpos /\ script[p] = k

\* the response to the child's request k has been written back
Answered(k) ==
    \E i \in 1..Len(t.stdin) : t.stdin[i] = Answer(k)

\* C25: every control request of the child is answered: a control response
\* with the same identifier is eventually written back, the handler's
\* result when a handler is registered for the sub-type and a control-error
\* response when none is.
C25_ChildRequestAnswered ==
    \A k \in ChildRequests :
        (ChildAsked(k) /\ CanAnswer) ~> (Answered(k) \/ ~CanAnswer)

\* the record with another value of its type field
WithType(d, ty) == [d EXCEPT !.type = ty]

\* the decoder has been applied to a JSON object
ParsedObject == dpc \in {"parsed", "done"} /\ drec.json = "object"

\* C26: a record whose type field is null, a number or absent fails the
\* same way in all three cases: extractType and ParseMessage each return
\* the same error for the three, and no message.
C26_TypeFailuresIdentical ==
    (ParsedObject /\ drec.type \in {"null", "number", "absent"}) =>
        /\ ~dout.msg.ok
        /\ ~dout.type.ok
        /\ \A ty \in {"null", "number", "absent"} :
              /\ ParseMessage(WithType(drec, ty)).err = dout.msg.err
              /\ ParseMessage(WithType(drec, ty)).msg = dout.msg.msg
              /\ extractType(WithType(drec, ty)).err = dout.type.err

\* the seven top-level types of the protocol
KnownTypes == ContentTypes \cup ControlTypes

\* the type field holds a string
StringType(d) == d.type \notin {"absent", "null", "number"}

\* every field of the record has the shape its type expects, the content
\* being an array of known blocks
WellFormed(d) ==
    /\ d.fields = "ok"
    /\ d.content.shape = "array"
    /\ \A i \in 1..Len(d.content.blocks) : d.content.blocks[i] \in BlockTypes

\* C27: the decoder gives every record of one of the seven known types its
\* shape, and fails with a MessageParseError that carries the type string
\* for exactly the types outside that set.
C27_DispatchesKnownTypes ==
    (ParsedObject /\ StringType(drec) /\ WellFormed(drec)) =>
        IF drec.type \in KnownTypes
        THEN dout.msg.ok /\ dout.msg.shape = drec.type
        ELSE /\ ~dout.msg.ok
             /\ dout.msg.err = "message_parse"
             /\ dout.msg.type = drec.type

\* the content array of the record holds an element whose type is missing,
\* invalid or outside the known set
BadBlock(d) ==
    /\ d.type \in {"user", "assistant"}
    /\ d.content.shape = "array"
    /\ \E i \in 1..Len(d.content.blocks) : d.content.blocks[i] \notin BlockTypes

\* C28: a JSON object fails to decode only when its type is missing or
\* invalid or outside the known set, at message or content-block level;
\* extra fields, and the absence or shape of any other field, never make a
\* record of a known type fail.
C28_OnlyTypeErrors ==
    (ParsedObject /\ ~dout.msg.ok) =>
        \/ ~StringType(drec)
        \/ drec.type \notin KnownTypes
        \/ BadBlock(drec)

\* the one-based positions of the elements that do not decode
BadPositions(blocks) ==
    {i \in 1..Len(blocks) : ~ParseContentBlock(blocks[i]).ok}

\* C29: ParseContentBlocks returns no blocks and the zero-based index of
\* the first element that does not decode; without such an element it
\* returns one block per element, in order (none for an empty array).
C29_FailsFastWithIndex ==
    dpc = "done" =>
        LET blocks == drec.content.blocks
            bad == BadPositions(blocks)
        IN  IF bad = {}
            THEN /\ dout.blocks.ok
                 /\ dout.blocks.blocks = blocks
            ELSE /\ ~dout.blocks.ok
                 /\ dout.blocks.blocks = <<>>
                 /\ \A i \in bad : dout.blocks.index + 1 <= i
                 /\ dout.blocks.index + 1 \in bad

\* the array of the repository's test: the element at index 1 is of an
\* unknown type, with valid elements before and after it
C29_Witness ==
    /\ dpc = "done"
    /\ drec.content.blocks = <<"text", "bogus", "text">>
    /\ dout.blocks = [ok |-> FALSE, blocks |-> <<>>, index |-> 1]

\* the read loop handles a line on which the framer or the decoder fails
RecordsReadError ==
    /\ rpc = "read"
    /\ rpos' = rpos + 1
    /\ ReadOutcome(script, rpos) \in {"framing", "decode_error"}

\* a Write returns the failure of its WriteLine
RecordsWriteError ==
    ret' = Ret("Transport.Write", "err_write")

\* C30: GetError returns the most recently recorded background error: once
\* the read loop has handled a failing line it is the error of that line,
\* and once a Write has failed it is the write failure.
C30_GetErrorLatest ==
    [][/\ RecordsReadError => GetError(t') = ReadError(script, rpos)
       /\ RecordsWriteError => GetError(t') = [src |-> "write", line |-> 0]]_vars

\* a call of GetError or IsReady is waiting for t.mu
InspectWaits(op) == ipc[op] = "lock" /\ ~ENABLED InspectReturn(op)

\* C31: GetError and IsReady never wait for another operation: a call that
\* has been made can return at once, also while a Close waits for the child
\* to exit and while a Write is in progress.
C31_InspectNeverBlocks ==
    \A op \in Inspectors : ~InspectWaits(op)

\* the child is alive and its next write to stderr blocks
StderrBlocked == t.proc = "running" /\ stderrPipe = StderrCap

\* C32: stderr is drained from Connect until the child exits: whenever the
\* stderr pipe of a living child is full, a consumer takes bytes out of it,
\* so the child is not blocked on it for ever.
C32_StderrDrained ==
    StderrBlocked ~> ~StderrBlocked

\* the read loop reads an empty line
ReadsEmpty ==
    /\ rpc = "read"
    /\ rpos <= Len(script)
    /\ script[rpos] = "empty"
    /\ rpos' = rpos + 1

IsContentKind(k) == k \in ContentTypes

\* the kinds of the records at the positions ms
Kinds(ms) == [i \in 1..Len(ms) |-> script[ms[i]]]

\* C33: an empty line carries no record: reading it produces no message,
\* records no error and leaves the read loop running with the channel open,
\* and (while not cancelled) the records delivered are those of the lines
\* read so far with the empty lines left out.
C33_EmptyLinesSkipped ==
    /\ [][ReadsEmpty =>
            /\ rpc' = "read"
            /\ ~messagesClosed'
            /\ t' = t
            /\ messages' = messages
            /\ rheld' = 0]_vars
    /\ [](~t.ctxDone =>
            Kinds(Enqueued \o Held) =
                SelectSeq(SelectSeq(SubSeq(script, 1, rpos - 1), LAMBDA k : k # "empty"),
                          IsContentKind))

\* a record before the empty line and a record after it have been taken,
\* and no error is recorded
C33_Witness ==
    \E p \in 1..Len(script) :
        /\ script[p] = "empty"
        /\ p < rpos
        /\ t.err = NoErr
        /\ \E m \in Range(taken) : m < p
        /\ \E m \in Range(taken) : m > p
        /\ rpc # "done"

\* the ready flag was set and has been cleared, by Close or by a failed
\* Write (the process was started and the transport is not ready)
ReadyCleared == t.proc # "none" /\ ~t.ready

\* C34: the ready flag rises at most once: it is false before Connect, a
\* step makes it true only as a Connect that returns nil on a transport
\* that had no command yet, and once cleared it stays false.
C34_ReadyRisesOnce ==
    /\ [](~t.cmd => ~t.ready)
    /\ [][(~t.ready /\ t'.ready) =>
            /\ ~t.cmd
            /\ ret' = Ret("Transport.Connect", "nil")]_vars
    /\ [][ReadyCleared => ~t'.ready]_vars

\* a Connect has just returned nil on a transport whose ready flag a
\* failed Write had cleared, and the flag is still clear
C34_Witness ==
    /\ ret = Ret("Transport.Connect", "nil")
    /\ t.err.src = "write"
    /\ ReadyCleared
    /\ ~t.ctxDone

WriteFailure == [src |-> "write", line |-> 0]

\* C35: a Write reaches the child only when the transport is ready: on a
\* transport that is not ready (before Connect, after Close, after a failed
\* Write) it returns the connection error and changes nothing; a Write that
\* fails puts nothing on stdin, clears ready and records the failure, and
\* from then on the transport is never ready.
C35_WriteOnlyWhenReady ==
    /\ [][\A cx \in BOOLEAN :
            TransportWrite("hi", cx) =>
                /\ ~t.ready => (ret'.res = "err_not_ready" /\ t' = t)
                /\ t'.stdin # t.stdin => (t.ready /\ ret'.res = "nil")
                /\ ret'.res = "err_write" =>
                       /\ t'.stdin = t.stdin
                       /\ ~t'.ready
                       /\ t'.err = WriteFailure]_vars
    /\ [](t.err = WriteFailure => ~t.ready)

\* a Write has just been rejected on a transport whose earlier Write
\* failed, and the child has received nothing
C35_Witness ==
    /\ ret = Ret("Transport.Write", "err_not_ready")
    /\ t.err = WriteFailure
    /\ t.cmd
    /\ t.stdin = <<>>

\* the read loop returns, which runs its deferred close(t.messages)
LoopReturns == rpc # "done" /\ rpc' = "done"

\* C36: the message channel is closed at most once and never sent on after
\* it is closed: only the return of the read loop closes it, the loop
\* returns once and is not started again, and a closed channel stays closed
\* and only loses messages to its consumer.
C36_ClosedOnceNoSendAfter ==
    /\ [][LoopReturns => (~messagesClosed /\ messagesClosed')]_vars
    /\ [][rpc = "done" => rpc' = "done"]_vars
    /\ [][messagesClosed =>
            /\ messagesClosed'
            /\ \/ messages' = messages
               \/ messages # <<>> /\ messages' = Tail(messages)]_vars
    /\ [](messagesClosed => rpc = "done")

\* the loop has returned at end of stream with messages still buffered in
\* the closed channel, and a further Connect has just returned nil on the
\* transport, which is still ready
C36_Witness ==
    /\ messagesClosed
    /\ rexit = "eof"
    /\ messages # <<>>
    /\ t.ready
    /\ ret = Ret("Transport.Connect", "nil")

\* C37: whenever Connect on the transport has just returned nil, the
\* transport is ready and has a stdin writer (its process was started);
\* also when an earlier Connect failed, and after Close.
C37_ConnectNilMeansReady ==
    ret = Ret("Transport.Connect", "nil") => (t.ready /\ t.proc # "none")

\* the Close that is returning is not the first Close of a started
\* process: an earlier Close has already waited on it, or the Connect
\* before it never started it
CloseAgain == t.waited \/ t.proc = "none"

\* C38: Close on the transport is idempotent: a Close after a completed
\* Close, or after a Connect that failed to start the process, returns nil
\* and leaves the process as it was.
C38_TransportCloseIdempotent ==
    [][\A how \in CloseOutcomes :
         (TransportCloseEnd(how) /\ CloseAgain) =>
            /\ ret' = Ret("Transport.Close", "nil")
            /\ t'.proc = t.proc]_vars

\* C39: ReceiveResponse never discards a message it has taken: every
\* message a call has removed from the session queue has been sent on a
\* ReceiveResponse channel or is the one the call is about to forward, also
\* when the caller's context is cancelled in between.
C39_NoDiscard ==
    \A m \in Range(taken) : m \in Range(allOut) \/ m = rr_held

\* the caller set both the permission callback and the tool name
CallerSetBoth == options0.canUseTool /\ options0.promptTool # "nil"

\* C40: NewClient is repeatable on one options value: a call is rejected
\* for its configuration exactly when the caller set both the permission
\* callback and the permission-prompt tool name; with the callback alone
\* the first call and every later call with the same value pass that test.
C40_NewClientRepeatable ==
    \A i \in 1..Len(created) :
        created[i].err = "err_config" <=> CallerSetBoth

====
